---- MODULE Spec2Model ----
(***************************************************************************)
(* Model of rust/lance-linalg/src/distance.rs: the DistanceType            *)
(* enumeration, its string surface (Display, TryFrom<&str>), the dispatch  *)
(* of func / batch_func to the distance kernels, and the kernels           *)
(* themselves (modules cosine, dot, l2, norm_l2, x86_64, which distance.rs *)
(* declares and re-exports).                                               *)
(*                                                                         *)
(* Strings are sequences of one-character strings: "l2" is <<"l","2">>.    *)
(* Vectors are sequences of integers.  f32 represents every integer of     *)
(* magnitude below 2^24 exactly, so on the bounded integer inputs used     *)
(* here sums of products are computed without rounding.                    *)
(***************************************************************************)
EXTENDS Integers, Sequences, FiniteSets, TLC

VARIABLES
    \* ---- string surface (a caller parsing and printing metric names)
    str,        \* the last &str handed to try_from
    res,        \* the last Result returned by try_from
    pmetric,    \* the DistanceType last formatted
    out,        \* the last string produced by Display::fmt
    op,         \* the last operation the caller performed
    \* ---- kernels (a caller invoking a handle)
    kcall,      \* the last call: which handle, on which arguments
    kret,       \* what that call returned
    \* ---- hardware-capability probe
    hw,         \* whether the running processor has the vector extension
    probe,      \* the cached probe result: "unset", "simd" or "scalar"
    probeWrites,\* how many times the cache has been written
    probeLog,   \* every value of the cache a kernel call has observed
    \* ---- threads invoking handles concurrently
    pool,       \* the input buffers, lent to the calls as &[f32]
    pool0,      \* the input buffers as the caller filled them
    tpc,        \* each thread's position in its call
    tcall,      \* each thread's call: the handle and its arguments
    tseen,      \* the probe result each thread's call read
    ti,         \* each thread's loop index
    tacc,       \* the accumulators of the kernels' loops
    tout        \* each thread's result

parseVars == <<str, res, pmetric, out, op>>
kernVars == <<kcall, kret>>
probeVars == <<hw, probe, probeWrites, probeLog>>
threadVars == <<pool, pool0, tpc, tcall, tseen, ti, tacc, tout>>
vars == <<str, res, pmetric, out, op, kcall, kret, hw, probe, probeWrites,
          probeLog, pool, pool0, tpc, tcall, tseen, ti, tacc, tout>>

(***************************************************************************)
(* Bounds of the model.                                                    *)
(***************************************************************************)
\* longest string enumerated exhaustively over SmallAlphabet
MaxLen == 2
\* largest vector dimension D
MaxDim == 3
\* longest batch buffer, N * D elements
MaxBuf == 4
\* lanes of the modelled hardware vector register
LaneWidth == 2
\* resolution of the fixed-point values standing for non-integer f32 results
Scale == 100

(***************************************************************************)
(* enum DistanceType { L2, Cosine, Dot }                                   *)
(***************************************************************************)
DistanceType == {"L2", "Cosine", "Dot"}

(***************************************************************************)
(* Characters.  UpperOf is the uppercase partner of each lowercase letter  *)
(* that occurs in the inputs; every other character has no case.           *)
(***************************************************************************)
LowerLetters == {"l", "e", "u", "c", "i", "d", "a", "n", "o", "s", "t", "b", "g"}

UpperOf ==
    [c \in LowerLetters |->
        CASE c = "l" -> "L" [] c = "e" -> "E" [] c = "u" -> "U"
          [] c = "c" -> "C" [] c = "i" -> "I" [] c = "d" -> "D"
          [] c = "a" -> "A" [] c = "n" -> "N" [] c = "o" -> "O"
          [] c = "s" -> "S" [] c = "t" -> "T" [] c = "b" -> "B"
          [] c = "g" -> "G"]

\* char::to_lowercase on one character
char_to_lowercase(c) ==
    IF \E l \in LowerLetters : UpperOf[l] = c
    THEN CHOOSE l \in LowerLetters : UpperOf[l] = c
    ELSE c

\* a mutant of to_lowercase: the case folding is forgotten
to_lowercase_identity(s) == s

\* str::to_lowercase
to_lowercase(s) == [i \in 1..Len(s) |-> char_to_lowercase(s[i])]

(***************************************************************************)
(* The string literals of distance.rs.                                     *)
(***************************************************************************)
StrL2 == <<"l", "2">>
StrEuclidean == <<"e", "u", "c", "l", "i", "d", "e", "a", "n">>
StrCosine == <<"c", "o", "s", "i", "n", "e">>
StrDot == <<"d", "o", "t">>

(***************************************************************************)
(* Result<DistanceType, ArrowError>                                        *)
(***************************************************************************)
Ok(m) == [ok |-> TRUE, val |-> m]

\* ArrowError::InvalidArgumentError(format!("Metric type '{s}' is not supported"))
ErrInvalidArgument(s) ==
    [ok |-> FALSE, kind |-> "InvalidArgumentError",
     msg |-> <<"Metric type '">> \o s \o <<"' is not supported">>]

\* a mutant of try_from: an unknown name falls back to L2
try_from_default_l2(s) ==
    LET l == to_lowercase(s) IN
    CASE l = StrL2 \/ l = StrEuclidean -> Ok("L2")
      [] l = StrCosine -> Ok("Cosine")
      [] l = StrDot -> Ok("Dot")
      [] OTHER -> Ok("L2")

\* impl TryFrom<&str> for DistanceType
try_from(s) ==
    LET l == to_lowercase(s) IN
    CASE l = StrL2 \/ l = StrEuclidean -> Ok("L2")
      [] l = StrCosine -> Ok("Cosine")
      [] l = StrDot -> Ok("Dot")
      [] OTHER -> ErrInvalidArgument(s)

\* a mutant of fmt: L2 prints under its alias
fmt_alias(m) ==
    CASE m = "L2" -> StrEuclidean
      [] m = "Cosine" -> StrCosine
      [] m = "Dot" -> StrDot

\* a mutant of fmt: Cosine prints abbreviated
fmt_short(m) ==
    CASE m = "L2" -> StrL2
      [] m = "Cosine" -> <<"c", "o", "s">>
      [] m = "Dot" -> StrDot

\* impl Display for DistanceType
fmt(m) ==
    CASE m = "L2" -> StrL2
      [] m = "Cosine" -> StrCosine
      [] m = "Dot" -> StrDot

(***************************************************************************)
(* Inputs of the string surface: every spelling, in every mix of letter    *)
(* case, of the recognized names and of some unrecognized ones, and every  *)
(* string of at most MaxLen characters over SmallAlphabet.                 *)
(***************************************************************************)
CaseVariants(w) ==
    {[i \in 1..Len(w) |->
        IF i \in U /\ w[i] \in LowerLetters THEN UpperOf[w[i]] ELSE w[i]]
     : U \in SUBSET (1..Len(w))}

BaseWords ==
    {StrL2, StrEuclidean, StrCosine, StrDot,
     <<"b", "o", "g", "u", "s">>, <<" ", "l", "2">>, <<"l", "2", " ">>,
     <<"c", "o", "s", "i", "n">>, <<"d", "o", "t", "s">>, <<"l", "1">>}

SmallAlphabet == {"l", "L", "2", "d", " "}

RECURSIVE StringsUpTo(_)
StringsUpTo(n) ==
    IF n = 0 THEN {<<>>}
    ELSE LET shorter == StringsUpTo(n - 1) IN
         shorter \cup {Append(s, c) : s \in shorter, c \in SmallAlphabet}

Inputs == UNION {CaseVariants(w) : w \in BaseWords} \cup StringsUpTo(MaxLen)

(***************************************************************************)
(* f32 values.  A finite value is num/den: den is 1 for the sums of        *)
(* products of integers, and Scale for the cosine distance, which is       *)
(* computed to a resolution of 1/Scale.  NaN is the IEEE result of 0/0.    *)
(***************************************************************************)
F32(num, den) == [nan |-> FALSE, num |-> num, den |-> den]
NaN == [nan |-> TRUE, num |-> 0, den |-> 1]

(***************************************************************************)
(* Scalar kernels: one multiply-accumulate per element, in index order.    *)
(***************************************************************************)
\* the term element i contributes to the sum named by kind
Term(kind, a, b, i) ==
    IF kind = "dot" THEN a[i] * b[i] ELSE (a[i] - b[i]) * (a[i] - b[i])

\* the scalar loop over elements lo..hi
RECURSIVE scalar_sum(_, _, _, _, _)
scalar_sum(kind, a, b, lo, hi) ==
    IF hi < lo THEN 0
    ELSE scalar_sum(kind, a, b, lo, hi - 1) + Term(kind, a, b, hi)

(***************************************************************************)
(* Accelerated kernels: LaneWidth accumulators, one per lane, each summing *)
(* its lane of every full chunk; the lanes are then added together and the *)
(* tail elements that fill no full chunk are finished by the scalar loop.  *)
(***************************************************************************)
\* lane j's accumulator after `chunks` full chunks
RECURSIVE lane_sum(_, _, _, _, _)
lane_sum(kind, a, b, j, chunks) ==
    IF chunks = 0 THEN 0
    ELSE lane_sum(kind, a, b, j, chunks - 1)
         + Term(kind, a, b, (chunks - 1) * LaneWidth + j)

\* the horizontal add of lanes 1..j
RECURSIVE reduce_lanes(_, _, _, _, _)
reduce_lanes(kind, a, b, j, chunks) ==
    IF j = 0 THEN 0
    ELSE reduce_lanes(kind, a, b, j - 1, chunks) + lane_sum(kind, a, b, j, chunks)

\* a mutant of simd_sum: the tail elements are dropped
simd_sum_no_tail(kind, a, b) ==
    reduce_lanes(kind, a, b, LaneWidth, Len(a) \div LaneWidth)

simd_sum(kind, a, b) ==
    LET chunks == Len(a) \div LaneWidth IN
    reduce_lanes(kind, a, b, LaneWidth, chunks)
    + scalar_sum(kind, a, b, chunks * LaneWidth + 1, Len(a))

\* the sum named by kind, on the path the probe selected
kernel_sum(simd, kind, a, b) ==
    IF simd = "simd" THEN simd_sum(kind, a, b)
    ELSE scalar_sum(kind, a, b, 1, Len(a))

\* the largest r with r * r <= n, for lo * lo <= n < (hi + 1) * (hi + 1)
RECURSIVE isqrt_between(_, _, _)
isqrt_between(n, lo, hi) ==
    IF lo >= hi THEN lo
    ELSE LET mid == (lo + hi + 1) \div 2 IN
         IF mid * mid <= n THEN isqrt_between(n, mid, hi)
         ELSE isqrt_between(n, lo, mid - 1)

\* sqrt, in fixed point: the result stands for sqrt(n), times Scale
sqrt_fixed(n) == isqrt_between(n * Scale * Scale, 0, (n + 1) * Scale)

\* norm(a) = sqrt(sum a_i^2)
norm_l2(simd, a) == sqrt_fixed(kernel_sum(simd, "dot", a, a))

\* l2(a,b) = sum (a_i - b_i)^2
l2_distance(simd, a, b) == F32(kernel_sum(simd, "l2", a, b), 1)

\* dot(a,b) = -(sum a_i * b_i)
dot_distance(simd, a, b) == F32(-kernel_sum(simd, "dot", a, b), 1)

\* 1 - xy / (x_norm * y_norm); 0/0 is NaN
cosine_from_sums(xy, x_norm, y_norm) ==
    IF x_norm * y_norm = 0 THEN NaN
    ELSE F32(Scale - ((xy * Scale * Scale * Scale) \div (x_norm * y_norm)), Scale)

\* cosine with the norm of x given
cosine_fast(simd, x, x_norm, y) ==
    cosine_from_sums(kernel_sum(simd, "dot", x, y), x_norm, norm_l2(simd, y))

\* cosine(a,b) = 1 - (sum a_i*b_i / (norm(a) * norm(b)))
cosine_distance(simd, a, b) == cosine_fast(simd, a, norm_l2(simd, a), b)

(***************************************************************************)
(* Batch kernels over a flat row-major buffer.                             *)
(***************************************************************************)
\* row i (from 1) of a buffer of rows of `dimension` elements
Row(batch, dimension, i) == SubSeq(batch, (i - 1) * dimension + 1, i * dimension)

l2_distance_batch(simd, from, batch, dimension) ==
    [i \in 1..(Len(batch) \div dimension) |->
        l2_distance(simd, from, Row(batch, dimension, i))]

dot_distance_batch(simd, from, batch, dimension) ==
    [i \in 1..(Len(batch) \div dimension) |->
        dot_distance(simd, from, Row(batch, dimension, i))]

\* the norm of the query is computed once for the whole batch
cosine_distance_batch(simd, from, batch, dimension) ==
    LET x_norm == norm_l2(simd, from) IN
    [i \in 1..(Len(batch) \div dimension) |->
        cosine_fast(simd, from, x_norm, Row(batch, dimension, i))]

(***************************************************************************)
(* impl DistanceType: the handles.  A handle is Arc::new(<fn item>): it    *)
(* holds the function and no data, so it is modelled by the function's     *)
(* name.                                                                   *)
(***************************************************************************)
\* a mutant of batch_func: Cosine is handed the dot kernel
batch_func_wrong_arm(m) ==
    CASE m = "L2" -> "l2_distance_batch"
      [] m = "Cosine" -> "dot_distance_batch"
      [] m = "Dot" -> "dot_distance_batch"

\* DistanceType::batch_func
batch_func(m) ==
    CASE m = "L2" -> "l2_distance_batch"
      [] m = "Cosine" -> "cosine_distance_batch"
      [] m = "Dot" -> "dot_distance_batch"

\* a mutant of func: Dot is handed the cosine kernel
func_dot_as_cosine(m) ==
    CASE m = "L2" -> "l2_distance"
      [] m = "Cosine" -> "cosine_distance"
      [] m = "Dot" -> "cosine_distance"

\* a mutant of func: L2 is handed the cosine kernel
func_l2_as_cosine(m) ==
    CASE m = "L2" -> "cosine_distance"
      [] m = "Cosine" -> "cosine_distance"
      [] m = "Dot" -> "dot_distance"

\* DistanceType::func
func(m) ==
    CASE m = "L2" -> "l2_distance"
      [] m = "Cosine" -> "cosine_distance"
      [] m = "Dot" -> "dot_distance"

\* calling a DistanceFunc: dyn Fn(&[f32], &[f32]) -> f32
call_func(f, simd, a, b) ==
    CASE f = "l2_distance" -> l2_distance(simd, a, b)
      [] f = "cosine_distance" -> cosine_distance(simd, a, b)
      [] f = "dot_distance" -> dot_distance(simd, a, b)

\* calling a BatchDistanceFunc: dyn Fn(&[f32], &[f32], usize) -> Arc<Float32Array>
call_batch(f, simd, from, batch, dimension) ==
    CASE f = "l2_distance_batch" -> l2_distance_batch(simd, from, batch, dimension)
      [] f = "cosine_distance_batch" -> cosine_distance_batch(simd, from, batch, dimension)
      [] f = "dot_distance_batch" -> dot_distance_batch(simd, from, batch, dimension)

(***************************************************************************)
(* Inputs of the kernels: every vector of dimension 1..MaxDim over Values, *)
(* the vectors of the documented scenarios, and every batch buffer of N    *)
(* rows with N * D <= MaxBuf.                                              *)
(***************************************************************************)
\* the elements of the enumerated vectors
Values == {-1, 0, 2}

VectorsOf(d) == [1..d -> Values]

ScenarioVectors == {<<1, 2, 3>>, <<1, 0, 0>>, <<0, 1, 0>>}

VectorPairs ==
    UNION {VectorsOf(d) \X VectorsOf(d) : d \in 1..MaxDim}
    \cup (ScenarioVectors \X ScenarioVectors)

\* [d, n, rowsBuf]: the flat buffers of n rows of dimension d
BatchesOf(d) ==
    UNION {[1..(n * d) -> Values] : n \in 0..(MaxBuf \div d)}

(***************************************************************************)
(* The caller of the string surface.  Every value is created by a call and *)
(* owned by the caller; the metric layer retains nothing between calls, so *)
(* the caller starts each chain of calls from nothing (op = "idle").       *)
(***************************************************************************)
NoStr == <<"-">>
NoResult == [ok |-> FALSE, kind |-> "none"]

ParseIdle ==
    /\ str = NoStr
    /\ res = NoResult
    /\ pmetric = "none"
    /\ out = NoStr
    /\ op = "idle"

\* DistanceType::try_from(s)
TryFrom ==
    /\ op = "idle"
    /\ \E s \in Inputs :
        /\ str' = s
        /\ res' = try_from(s)
    /\ op' = "try_from"
    /\ UNCHANGED <<pmetric, out>>

\* m.to_string()
Display ==
    /\ op = "idle"
    /\ \E m \in DistanceType :
        /\ pmetric' = m
        /\ out' = fmt(m)
    /\ op' = "fmt"
    /\ UNCHANGED <<str, res>>

\* DistanceType::try_from(s)?.to_string()
FmtParsed ==
    /\ op = "try_from"
    /\ res.ok
    /\ pmetric' = res.val
    /\ out' = fmt(res.val)
    /\ op' = "fmt_parsed"
    /\ UNCHANGED <<str, res>>

\* DistanceType::try_from(m.to_string().as_str())
ParseShown ==
    /\ op = "fmt"
    /\ str' = out
    /\ res' = try_from(out)
    /\ op' = "parse_shown"
    /\ UNCHANGED <<pmetric, out>>

\* the caller drops the values it holds
DropParse ==
    /\ op # "idle"
    /\ str' = NoStr
    /\ res' = NoResult
    /\ pmetric' = "none"
    /\ out' = NoStr
    /\ op' = "idle"

(***************************************************************************)
(* The hardware-capability probe: a cell written by the first use, under   *)
(* the once-only guarantee of the initialisation primitive.                *)
(***************************************************************************)
\* what probing the processor returns
probe_hardware(h) == IF h THEN "simd" ELSE "scalar"

\* a mutant of probe_once: the cache is read without being initialised
probe_once_skipped(cached, h) == cached

\* the cache after get-or-initialise
probe_once(cached, h) == IF cached = "unset" THEN probe_hardware(h) ELSE cached

ProbeSet ==
    /\ probe = probe_once("unset", hw)
    /\ probeWrites = 1
    /\ probeLog = {}

(***************************************************************************)
(* The caller of the kernels.  The probe result was cached when the        *)
(* library was initialised, before any call.                               *)
(***************************************************************************)
NoCall == [kind |-> "none"]
NoRet == <<>>

\* m.func()(a, b)
CallFunc ==
    /\ kcall = NoCall
    /\ \E m \in DistanceType, ab \in VectorPairs :
        /\ kcall' = [kind |-> "func", m |-> m, a |-> ab[1], b |-> ab[2]]
        /\ kret' = <<call_func(func(m), probe, ab[1], ab[2])>>

\* m.batch_func()(q, B, D)
CallBatch ==
    /\ kcall = NoCall
    /\ \E m \in DistanceType, d \in 1..MaxDim :
        \E q \in VectorsOf(d), B \in BatchesOf(d) :
            /\ kcall' = [kind |-> "batch", m |-> m, a |-> q, b |-> B, d |-> d]
            /\ kret' = call_batch(batch_func(m), probe, q, B, d)

\* the caller drops the arguments and the result
DropKern ==
    /\ kcall # NoCall
    /\ kcall' = NoCall
    /\ kret' = NoRet

(***************************************************************************)
(* Threads.  Each thread obtains a handle (a fresh Arc from func or        *)
(* batch_func, or a clone of one shared by all threads), calls it on       *)
(* borrowed buffers, and runs the kernel one loop iteration at a time, so  *)
(* that the iterations of concurrent calls interleave freely.              *)
(***************************************************************************)
Threads == {"t1", "t2"}

ZeroAcc == [xy |-> 0, xx |-> 0, yy |-> 0, dd |-> 0]
NoThreadCall == [kind |-> "none"]

\* a mutant of acc_slot: the accumulators are one static shared by all calls
acc_slot_static(t) == "t1"

\* where a call keeps its accumulators: on its own stack
acc_slot(t) == t

\* the accumulators after the loop body on elements x, y
accumulate(acc, x, y) ==
    [xy |-> acc.xy + x * y, xx |-> acc.xx + x * x, yy |-> acc.yy + y * y,
     dd |-> acc.dd + (x - y) * (x - y)]

\* the value a pairwise kernel returns from its accumulators
finish_func(f, acc) ==
    CASE f = "l2_distance" -> F32(acc.dd, 1)
      [] f = "dot_distance" -> F32(-acc.xy, 1)
      [] f = "cosine_distance" ->
            cosine_from_sums(acc.xy, sqrt_fixed(acc.xx), sqrt_fixed(acc.yy))

ThreadsIdle ==
    /\ tpc = [t \in Threads |-> "idle"]
    /\ tcall = [t \in Threads |-> NoThreadCall]
    /\ tseen = [t \in Threads |-> "unset"]
    /\ ti = [t \in Threads |-> 0]
    /\ tacc = [t \in Threads |-> ZeroAcc]
    /\ tout = [t \in Threads |-> <<>>]

NoPool ==
    /\ pool = <<>>
    /\ pool0 = <<>>

\* the library is initialised ahead of the first call
LibInit ==
    /\ probe = "unset"
    /\ probe' = probe_once(probe, hw)
    /\ probeWrites' = probeWrites + 1
    /\ UNCHANGED <<hw, probeLog, threadVars>>

\* thread t calls m.func()(pool[a], pool[b])
BeginFunc(t) ==
    /\ tpc[t] = "idle"
    /\ \E m \in DistanceType, ab \in {<<1, 2>>, <<2, 1>>}, shared \in BOOLEAN :
        tcall' = [tcall EXCEPT ![t] =
                    [kind |-> "func", f |-> func(m), shared |-> shared,
                     a |-> ab[1], b |-> ab[2], d |-> Len(pool[1])]]
    /\ tpc' = [tpc EXCEPT ![t] = "called"]
    /\ tout' = [tout EXCEPT ![t] = <<>>]
    /\ UNCHANGED <<probeVars, pool, pool0, tseen, ti, tacc>>

\* thread t calls m.batch_func()(pool[1], pool[1] ++ pool[2], D)
BeginBatch(t) ==
    /\ tpc[t] = "idle"
    /\ \E m \in DistanceType, shared \in BOOLEAN :
        tcall' = [tcall EXCEPT ![t] =
                    [kind |-> "batch", f |-> batch_func(m), shared |-> shared,
                     a |-> 1, b |-> 0, d |-> Len(pool[1])]]
    /\ tpc' = [tpc EXCEPT ![t] = "called"]
    /\ tout' = [tout EXCEPT ![t] = <<>>]
    /\ UNCHANGED <<probeVars, pool, pool0, tseen, ti, tacc>>

\* the kernel reads the cached probe result, initialising it if need be
ReadProbe(t) ==
    /\ tpc[t] = "called"
    /\ probe' = probe_once(probe, hw)
    /\ probeWrites' = IF probe' # probe THEN probeWrites + 1 ELSE probeWrites
    /\ probeLog' = probeLog \cup {probe'}
    /\ tseen' = [tseen EXCEPT ![t] = probe']
    /\ ti' = [ti EXCEPT ![t] = 1]
    /\ tacc' = [tacc EXCEPT ![acc_slot(t)] = ZeroAcc]
    /\ tpc' = [tpc EXCEPT ![t] = "run"]
    /\ UNCHANGED <<hw, pool, pool0, tcall, tout>>

\* the second argument of t's call
SecondArg(t) ==
    IF tcall[t].kind = "batch" THEN pool[1] \o pool[2] ELSE pool[tcall[t].b]

\* one iteration of a pairwise kernel's loop
StepFunc(t) ==
    /\ tpc[t] = "run"
    /\ tcall[t].kind = "func"
    /\ ti[t] <= tcall[t].d
    /\ tacc' = [tacc EXCEPT ![acc_slot(t)] =
                  accumulate(@, pool[tcall[t].a][ti[t]], pool[tcall[t].b][ti[t]])]
    /\ ti' = [ti EXCEPT ![t] = @ + 1]
    /\ UNCHANGED <<probeVars, pool, pool0, tpc, tcall, tseen, tout>>

\* the pairwise kernel returns
FinishFunc(t) ==
    /\ tpc[t] = "run"
    /\ tcall[t].kind = "func"
    /\ ti[t] > tcall[t].d
    /\ tout' = [tout EXCEPT ![t] = <<finish_func(tcall[t].f, tacc[acc_slot(t)])>>]
    /\ tpc' = [tpc EXCEPT ![t] = "done"]
    /\ UNCHANGED <<probeVars, pool, pool0, tcall, tseen, ti, tacc>>

\* one row of a batch kernel
StepBatch(t) ==
    /\ tpc[t] = "run"
    /\ tcall[t].kind = "batch"
    /\ ti[t] <= Len(SecondArg(t)) \div tcall[t].d
    /\ tout' = [tout EXCEPT ![t] =
                  @ \o call_batch(tcall[t].f, tseen[t], pool[tcall[t].a],
                                  Row(SecondArg(t), tcall[t].d, ti[t]), tcall[t].d)]
    /\ ti' = [ti EXCEPT ![t] = @ + 1]
    /\ UNCHANGED <<probeVars, pool, pool0, tpc, tcall, tseen, tacc>>

\* the batch kernel returns
FinishBatch(t) ==
    /\ tpc[t] = "run"
    /\ tcall[t].kind = "batch"
    /\ ti[t] > Len(SecondArg(t)) \div tcall[t].d
    /\ tpc' = [tpc EXCEPT ![t] = "done"]
    /\ UNCHANGED <<probeVars, pool, pool0, tcall, tseen, ti, tacc, tout>>

\* thread t drops the result
Return(t) ==
    /\ tpc[t] = "done"
    /\ tpc' = [tpc EXCEPT ![t] = "idle"]
    /\ tcall' = [tcall EXCEPT ![t] = NoThreadCall]
    /\ tout' = [tout EXCEPT ![t] = <<>>]
    /\ tseen' = [tseen EXCEPT ![t] = "unset"]
    /\ ti' = [ti EXCEPT ![t] = 0]
    /\ tacc' = [tacc EXCEPT ![acc_slot(t)] = ZeroAcc]
    /\ UNCHANGED <<probeVars, pool, pool0>>

\* the buffers the threads share: a documented scenario, or any two vectors
\* of dimension 1
PoolInputs ==
    (ScenarioVectors \X ScenarioVectors) \cup (VectorsOf(1) \X VectorsOf(1))

(***************************************************************************)
(* Specifications.                                                         *)
(***************************************************************************)
InitParse ==
    /\ ParseIdle
    /\ kcall = NoCall
    /\ kret = NoRet
    /\ hw = TRUE
    /\ ProbeSet
    /\ NoPool
    /\ ThreadsIdle

NextParse ==
    \/ TryFrom /\ UNCHANGED <<kernVars, probeVars, threadVars>>
    \/ Display /\ UNCHANGED <<kernVars, probeVars, threadVars>>
    \/ FmtParsed /\ UNCHANGED <<kernVars, probeVars, threadVars>>
    \/ ParseShown /\ UNCHANGED <<kernVars, probeVars, threadVars>>
    \/ DropParse /\ UNCHANGED <<kernVars, probeVars, threadVars>>

SpecParse == InitParse /\ [][NextParse]_vars

InitKernel ==
    /\ ParseIdle
    /\ kcall = NoCall
    /\ kret = NoRet
    /\ hw \in BOOLEAN
    /\ ProbeSet
    /\ NoPool
    /\ ThreadsIdle

NextKernel ==
    \/ CallFunc /\ UNCHANGED <<parseVars, probeVars, threadVars>>
    \/ CallBatch /\ UNCHANGED <<parseVars, probeVars, threadVars>>
    \/ DropKern /\ UNCHANGED <<parseVars, probeVars, threadVars>>

SpecKernel == InitKernel /\ [][NextKernel]_vars

InitThreads ==
    /\ ParseIdle
    /\ kcall = NoCall
    /\ kret = NoRet
    /\ hw \in BOOLEAN
    /\ probe = "unset"
    /\ probeWrites = 0
    /\ probeLog = {}
    /\ pool \in PoolInputs
    /\ pool0 = pool
    /\ ThreadsIdle

NextThreads ==
    \/ LibInit /\ UNCHANGED <<parseVars, kernVars>>
    \/ \E t \in Threads : BeginFunc(t) /\ UNCHANGED <<parseVars, kernVars>>
    \/ \E t \in Threads : BeginBatch(t) /\ UNCHANGED <<parseVars, kernVars>>
    \/ \E t \in Threads : ReadProbe(t) /\ UNCHANGED <<parseVars, kernVars>>
    \/ \E t \in Threads : StepFunc(t) /\ UNCHANGED <<parseVars, kernVars>>
    \/ \E t \in Threads : FinishFunc(t) /\ UNCHANGED <<parseVars, kernVars>>
    \/ \E t \in Threads : StepBatch(t) /\ UNCHANGED <<parseVars, kernVars>>
    \/ \E t \in Threads : FinishBatch(t) /\ UNCHANGED <<parseVars, kernVars>>
    \/ \E t \in Threads : Return(t) /\ UNCHANGED <<parseVars, kernVars>>

SpecThreads == InitThreads /\ [][NextThreads]_vars

(***************************************************************************)
(* Properties of the string surface (SpecParse).                           *)
(***************************************************************************)
\* s spells the lowercase word w, in any mix of letter case
IsSpelling(s, w) ==
    /\ Len(s) = Len(w)
    /\ \A i \in 1..Len(w) :
        s[i] = w[i] \/ (w[i] \in LowerLetters /\ s[i] = UpperOf[w[i]])

\* s and t differ at most in the case of their letters
SameIgnoringCase(s, t) ==
    /\ Len(s) = Len(t)
    /\ \A i \in 1..Len(s) :
        \/ s[i] = t[i]
        \/ \E l \in LowerLetters : {s[i], t[i]} = {l, UpperOf[l]}

RecognizedNames == {StrL2, StrEuclidean, StrCosine, StrDot}

Recognized(s) == \E w \in RecognizedNames : IsSpelling(s, w)

CanonicalNames == {StrL2, StrCosine, StrDot}

\* C1: try_from is case-insensitive and total over the recognized names:
\* every spelling of "l2" or "euclidean" gives Ok(L2), of "cosine"
\* Ok(Cosine), of "dot" Ok(Dot), and two inputs that differ only in letter
\* case parse to the same metric.
C1_ParseCaseInsensitive ==
    op = "try_from" =>
        /\ (IsSpelling(str, StrL2) \/ IsSpelling(str, StrEuclidean)) => res = Ok("L2")
        /\ IsSpelling(str, StrCosine) => res = Ok("Cosine")
        /\ IsSpelling(str, StrDot) => res = Ok("Dot")
        /\ Recognized(str) =>
            \A t \in Inputs : SameIgnoringCase(t, str) => try_from(t) = res

\* "COSINE" has been parsed, to Cosine
C1_Witness ==
    /\ op = "try_from"
    /\ str = <<"C", "O", "S", "I", "N", "E">>
    /\ res = Ok("Cosine")

\* C2: an input whose lowercase form is none of the recognized names makes
\* try_from return the error value (ArrowError::InvalidArgumentError naming
\* the input), never a metric; and try_from returns an error for no other
\* input.
C2_UnsupportedIsError ==
    op \in {"try_from", "parse_shown"} =>
        /\ ~Recognized(str) =>
            /\ ~res.ok
            /\ res.kind = "InvalidArgumentError"
            /\ res.msg = <<"Metric type '">> \o str \o <<"' is not supported">>
        /\ Recognized(str) => res.ok /\ res.val \in DistanceType

\* "bogus" has been parsed, to an error
C2_Witness ==
    /\ op = "try_from"
    /\ str = <<"b", "o", "g", "u", "s">>
    /\ ~res.ok

\* C3: display(parse(s)) is the canonical lowercase name of the parsed
\* metric, one of "l2", "cosine", "dot", whatever the spelling of s: it is
\* all lowercase, it parses back to the same metric, and every spelling of
\* "euclidean" gives "l2".
C3_DisplayOfParseIsCanonical ==
    op = "fmt_parsed" =>
        /\ out \in CanonicalNames
        /\ \A i \in 1..Len(out) : \A l \in LowerLetters : out[i] # UpperOf[l]
        /\ try_from(out) = res
        /\ IsSpelling(str, StrEuclidean) => out = StrL2
        /\ IsSpelling(str, out) \/ IsSpelling(str, StrEuclidean)

\* "Euclidean" has been parsed and displayed, as something other than itself
C3_Witness ==
    /\ op = "fmt_parsed"
    /\ str = <<"E", "u", "c", "l", "i", "d", "e", "a", "n">>
    /\ out # str

\* C10: try_from is a left inverse of display: parse(display(m)) is Ok(m)
\* for every metric m, the three names are pairwise distinct, and displaying
\* the parsed metric gives the same name again.
C10_ParseInvertsDisplay ==
    /\ op = "parse_shown" =>
        /\ res = Ok(pmetric)
        /\ fmt(res.val) = out
    /\ \A m1, m2 \in DistanceType : fmt(m1) = fmt(m2) => m1 = m2

\* the name of Cosine has been parsed back
C10_Witness ==
    /\ op = "parse_shown"
    /\ pmetric = "Cosine"
    /\ res.ok

(***************************************************************************)
(* Properties of the kernels and their dispatch (SpecKernel).              *)
(***************************************************************************)
\* the sum of f[i] over the indices in S
RECURSIVE SumOver(_, _)
SumOver(f, S) ==
    IF S = {} THEN 0
    ELSE LET i == CHOOSE x \in S : TRUE IN f[i] + SumOver(f, S \ {i})

InnerProduct(a, b) == SumOver([i \in 1..Len(a) |-> a[i] * b[i]], 1..Len(a))

SquaredDistance(a, b) ==
    SumOver([i \in 1..Len(a) |-> (a[i] - b[i]) * (a[i] - b[i])], 1..Len(a))

RunAlone(t) ==
    IF tcall[t].kind = "func"
    THEN <<call_func(tcall[t].f, tseen[t], pool0[tcall[t].a], pool0[tcall[t].b])>>
    ELSE call_batch(tcall[t].f, tseen[t], pool0[tcall[t].a],
                    pool0[1] \o pool0[2], tcall[t].d)

\* C7: the handles are pure and stateless: under any interleaving of
\* concurrent calls, on a shared handle or on separately obtained ones, each
\* call returns what it returns when run alone on the same inputs, and the
\* inputs are left as they were.
C7_ConcurrentCallsArePure ==
    /\ pool = pool0
    /\ \A t \in Threads : tpc[t] = "done" => tout[t] = RunAlone(t)

\* one call on the shared handle has returned while another call on the
\* same shared handle, with the arguments swapped, is in the middle of its
\* loop
C7_Witness ==
    /\ tpc["t1"] = "done"
    /\ tpc["t2"] = "run"
    /\ ti["t2"] = 2
    /\ tcall["t1"].kind = "func"
    /\ tcall["t2"].kind = "func"
    /\ tcall["t1"].shared /\ tcall["t2"].shared
    /\ tcall["t1"].f = tcall["t2"].f
    /\ tcall["t1"].a # tcall["t2"].a
    /\ pool[1] # pool[2]

====
